---------------------------- MODULE Spec2Model ----------------------------
(***************************************************************************)
(* Model of tmcController (src/tmcController.hpp): the session lifecycle   *)
(* (open / close / connect), the catalog commands built from the           *)
(* TMCC_CHECK_CONNECTED / TMCC_WRITE_REQUEST / TMCC_WRITE_COMMAND /        *)
(* TMCC_READ_RESPONSE macros, and the layered error codes.                 *)
(*                                                                         *)
(* The class is single threaded and blocking.  A public call is modelled   *)
(* as a run of steps, one step per call into libftdi or sleep_for: the     *)
(* step takes the outcome of that call from the environment and executes   *)
(* the code up to the next such call (or to the return).  pc is the        *)
(* position of the one thread; while pc # "idle" only the step at pc is    *)
(* enabled, so a call always runs from its entry to its return.            *)
(***************************************************************************)
EXTENDS Integers, Sequences, FiniteSets

VARIABLES
    m_opened,     \* bool m_opened                       (hpp:232)
    m_connected,  \* bool m_connected                    (hpp:235)
    m_chipid,     \* unsigned int m_chipid               (hpp:241)
    m_totrd,      \* int m_totrd                         (hpp:410)
    m_rdbuf,      \* unsigned char m_rdbuf[256], at the offsets RdOffsets (hpp:126)
    pc,           \* position of the thread: "idle" or the transport call it is about to make
    op,           \* the public member function being executed / last executed
    arg,          \* its control-relevant argument (ces, ov in 1/1000, VoltageLimit), else 0
    rv,           \* value returned by the last completed public call (0 while one runs)
    threw,        \* the last public call was left by an uncaught exception
    log,          \* transport calls made by the current / last public call, in order
    pre,          \* m_opened and m_connected when the public call was entered
    connrvs,      \* values returned by the connect() calls made inside the public call
    out,          \* the caller's output argument: << >> until the call assigns it, then << record >>
    m_vendor,     \* uint16_t m_vendor                   (hpp:143)
    m_product,    \* uint16_t m_product                  (hpp:151)
    m_serial,     \* std::string m_serial                (hpp:158)
    wire,         \* bytes the device has sent and ftdi_read_data has not delivered yet,
                  \* each named by the call whose request it answers
    caller,       \* the thread that made the public call
    m_sndbuf      \* unsigned char m_sndbuf[256], at the offsets SndOffsets (hpp:123)

vars == << m_opened, m_connected, m_chipid, m_totrd, m_rdbuf,
           pc, op, arg, rv, threw, log, pre, connrvs, out,
           m_vendor, m_product, m_serial, wire, caller, m_sndbuf >>

-----------------------------------------------------------------------------
(* Bounds of the environment *)

\* chip identifiers the bridge chip may report: 1 .. MaxChipId
MaxChipId == 2

\* number of reads of one response that may leave the response incomplete
MaxReads == 2

\* the float ov of pz_set_outputvolts takes the values n / OvDen
OvDen == 1000

\* most bytes that may wait undelivered when a further command is called
MaxPending == 10

-----------------------------------------------------------------------------
(* Program constants *)

\* sizeof(m_rdbuf)
RdBufSize == 256

\* uint16_t m_vendor {0x0403} and uint16_t m_product {0xfaf0}
DefaultVendor == 1027

DefaultProduct == 64240

\* the "device unavailable" code of ftdi_write_data / ftdi_read_data
Unavailable == -666

-----------------------------------------------------------------------------
(* The environment: outcomes of the libftdi calls *)

\* raw negative codes a libftdi call may return
RawCodes == {-3, -5, Unavailable}

\* outcome of a libftdi call that returns 0 on success
FtdiResults == {0} \cup RawCodes

ChipIds == 1 .. MaxChipId

\* byte values the device sends; a read delivers a run of one value
WireBytes == {1, 2, 3}

\* the offsets of m_rdbuf whose value decides a return code: m_rdbuf[3] in
\* mod_req_chanenablestate.  The other bytes of the buffer are not kept.
RdOffsets == {3}

\* the offsets of m_sndbuf a request can occupy: the longest request has 40 bytes
SndOffsets == 0 .. 39

\* m_sndbuf in the sessions that do not follow the content of the requests
NoRequest == [k \in SndOffsets |-> 0]

\* m_rdbuf after ftdi_read_data stored n bytes of value b at m_rdbuf + at
Store(buf, at, n, b) ==
    [i \in RdOffsets |-> IF at <= i /\ i < at + n THEN b ELSE buf[i]]

Abs(x) == IF x < 0 THEN -x ELSE x

Entry(call, res, val) == [call |-> call, res |-> res, val |-> val, fill |-> 0]

\* ftdi_read_data(m_ftdi, m_rdbuf + m_totrd, room) returned r, having stored
\* r bytes of value b
ReadEntry(r, room, b) == [call |-> "read_data", res |-> r, val |-> room, fill |-> b]

-----------------------------------------------------------------------------
(* The command catalog *)

\* commands whose request is written with TMCC_WRITE_REQUEST (6 bytes)
WriteRequestCmds ==
    { "mod_identify", "mod_set_chanenablestate", "mod_req_chanenablestate",
      "hw_stop_updatemsgs", "hw_req_info", "pz_req_outputvolts",
      "pz_req_pzstatusupdate", "pz_req_tpz_dispsettings",
      "pz_req_tpz_iosettings", "kpz_req_kcubemmiparams" }

\* commands whose request is written with TMCC_WRITE_COMMAND (esz bytes)
WriteCommandCmds ==
    { "pz_set_outputvolts", "pz_set_tpz_dispsettings",
      "pz_set_tpz_iosettings", "kpz_set_kcubemmiparams" }

Catalog == WriteRequestCmds \cup WriteCommandCmds

\* commands that use TMCC_READ_RESPONSE
ReadCmds ==
    { "mod_set_chanenablestate", "mod_req_chanenablestate", "hw_req_info",
      "pz_req_outputvolts", "pz_req_pzstatusupdate", "pz_req_tpz_dispsettings",
      "pz_req_tpz_iosettings", "kpz_req_kcubemmiparams" }

CommandSizeHeaderOnly(c) == 6

\* esz of TMCC_WRITE_COMMAND
CommandSize(c) ==
    CASE c = "pz_set_outputvolts"      -> 10
      [] c = "pz_set_tpz_dispsettings" -> 8
      [] c = "pz_set_tpz_iosettings"   -> 16
      [] c = "kpz_set_kcubemmiparams"  -> 40
      [] OTHER                         -> 6

\* esz of TMCC_READ_RESPONSE
ResponseSize(c) ==
    CASE c = "mod_set_chanenablestate" -> 0
      [] c = "mod_req_chanenablestate" -> 6
      [] c = "hw_req_info"             -> 90
      [] c = "pz_req_outputvolts"      -> 10
      [] c = "pz_req_pzstatusupdate"   -> 16
      [] c = "pz_req_tpz_dispsettings" -> 8
      [] c = "pz_req_tpz_iosettings"   -> 16
      [] c = "kpz_req_kcubemmiparams"  -> 40
      [] OTHER                         -> 0

\* values of the argument that decides the command's control flow:
\* EnableState (0 invalid, 1 enabled, 2 disabled), the numerator of ov,
\* VoltLimit (0 INVALID, 1 V75, 2 V100, 3 V150)
Args(c) ==
    CASE c = "mod_set_chanenablestate" -> {0, 1, 2}
      [] c = "pz_set_outputvolts"      -> {-(OvDen + 1), 0, OvDen, OvDen + 1}
      [] c = "pz_set_tpz_iosettings"   -> {0, 1, 2, 3}
      [] OTHER                         -> {0}

\* the checks a command makes on its argument before TMCC_CHECK_CONNECTED:
\* the code it returns, or 0 when the argument is accepted
ValidationCodeAfterConnect(c, a) ==
    CASE c = "mod_set_chanenablestate" /\ a = 0      -> -1000
      [] c = "pz_set_tpz_iosettings" /\ a = 0        -> -1000
      [] OTHER                                       -> 0

ValidationCodeVoltsOnly(c, a) ==
    CASE c = "pz_set_outputvolts" /\ Abs(a) > OvDen  -> -980
      [] OTHER                                       -> 0

ValidationCode(c, a) ==
    CASE c = "mod_set_chanenablestate" /\ a = 0      -> -1000
      [] c = "pz_set_outputvolts" /\ Abs(a) > OvDen  -> -980
      [] c = "pz_set_tpz_iosettings" /\ a = 0        -> -1000
      [] OTHER                                       -> 0

BodyStartAlwaysWrite(c) == "write_request"

\* the first transport call of a command's body, after TMCC_CHECK_CONNECTED
BodyStart(c) == IF c \in WriteCommandCmds THEN "cmd_tcioflush" ELSE "write_request"

-----------------------------------------------------------------------------
Init ==
    /\ m_opened = FALSE
    /\ m_connected = FALSE
    /\ m_chipid = 0
    /\ m_totrd = 0
    /\ m_rdbuf = [i \in RdOffsets |-> 0]
    /\ pc = "idle"
    /\ op = "none"
    /\ arg = 0
    /\ rv = 0
    /\ threw = FALSE
    /\ log = << >>
    /\ pre = [opened |-> FALSE, connected |-> FALSE]
    /\ connrvs = << >>
    /\ out = << >>
    /\ m_vendor = DefaultVendor
    /\ m_product = DefaultProduct
    /\ m_serial = ""
    /\ wire = << >>
    /\ m_sndbuf = NoRequest
    /\ caller = 1

\* entry of a public member function
Enter(f, a) ==
    /\ pc = "idle"
    /\ op' = f
    /\ arg' = a
    /\ threw' = FALSE
    /\ log' = << >>
    /\ pre' = [opened |-> m_opened, connected |-> m_connected]
    /\ connrvs' = << >>
    /\ out' = << >>
    /\ caller' = caller

ReturnUnlessTransferFailed(r) ==
    /\ pc' = IF r < 0 /\ pc \in {"write_request", "cmd_write_data", "read_data"}
               THEN pc
               ELSE "idle"
    /\ rv' = r

\* return of the public member function with value r
Return(r) ==
    /\ pc' = "idle"
    /\ rv' = r

\* the first transport call of connect(): open() when not opened
ConnectStart == IF ~m_opened THEN "usb_open_desc_index" ELSE "read_chipid"

\* mutant of CheckConnectedFails: the macro does not return on a failed connect()
CheckConnectedNeverFails(r, conn) == FALSE

\* TMCC_CHECK_CONNECTED: the command gives up when connect() returned r with
\* m_connected = conn
CheckConnectedFails(r, conn) == (r < 0) \/ ~conn

\* connect() returns r with m_connected = conn: to the caller of the public
\* connect(), or into TMCC_CHECK_CONNECTED of the running command
ConnectReturn(r, conn) ==
    /\ connrvs' = Append(connrvs, r)
    /\ IF op = "connect" \/ CheckConnectedFails(r, conn)
         THEN Return(r)
         ELSE pc' = BodyStart(op) /\ rv' = rv

\* connect() gives up when its open() returned r with m_opened = opened
ConnectOpenFails(r, opened) == (r < 0) \/ ~opened


-----------------------------------------------------------------------------
(* open(): src/tmcController.hpp 977-997 *)

SessionUnchangedButConnected ==
    /\ m_connected' = FALSE
    /\ UNCHANGED << m_opened, m_chipid, m_totrd, m_rdbuf,
                    m_vendor, m_product, m_serial, wire, m_sndbuf >>

\* the frame of a step that touches nothing but pc, rv, log and connrvs
SessionUnchanged ==
    UNCHANGED << m_opened, m_connected, m_chipid, m_totrd, m_rdbuf,
                 m_vendor, m_product, m_serial, wire, m_sndbuf >>

\* the frame of a step inside a public call
CallUnchanged ==
    UNCHANGED << op, arg, threw, pre, out, caller,
                 m_vendor, m_product, m_serial, wire, m_sndbuf >>

\* the public open(bool): no test of m_opened, straight to the libftdi call
CallOpen ==
    /\ Enter("open", 0)
    /\ pc' = "usb_open_desc_index"
    /\ rv' = 0
    /\ SessionUnchanged

\* mutant of OpenCode: open() offsets the raw code as connect() does
OpenCodeOffset(r) == IF r < 0 THEN -10 + r ELSE 0

\* value open() returns when ftdi_usb_open_desc_index returned r
OpenCode(r) == IF r < 0 THEN r ELSE 0

\* m_opened after ftdi_usb_open_desc_index returned r
OpenFlag(r) == ~(r < 0)

\* ftdi_usb_open_desc_index returns; open() returns to its caller, which is
\* the user or connect()
UsbOpen ==
    /\ pc = "usb_open_desc_index"
    /\ \E r \in FtdiResults :
         /\ log' = Append(log, Entry("usb_open_desc_index", r, 0))
         /\ m_opened' = OpenFlag(r)
         /\ IF op = "open"
              THEN Return(OpenCode(r)) /\ connrvs' = connrvs
              ELSE IF ConnectOpenFails(OpenCode(r), OpenFlag(r))
                     THEN ConnectReturn(OpenCode(r), m_connected)
                     ELSE pc' = "read_chipid" /\ rv' = rv /\ connrvs' = connrvs
    /\ UNCHANGED << m_connected, m_chipid, m_totrd, m_rdbuf >>
    /\ CallUnchanged

-----------------------------------------------------------------------------
(* close(): src/tmcController.hpp 1021-1043 *)

CallClose ==
    /\ Enter("close", 0)
    /\ pc' = IF ~m_opened THEN "idle" ELSE "usb_close"
    /\ rv' = 0
    /\ SessionUnchanged

\* mutant of UsbClose: a successful close() also clears m_chipid
UsbCloseClearsChipId ==
    /\ pc = "usb_close"
    /\ \E r \in FtdiResults :
         /\ log' = Append(log, Entry("usb_close", r, 0))
         /\ IF r < 0
              THEN Return(r) /\ UNCHANGED << m_opened, m_connected, m_chipid >>
              ELSE /\ m_opened' = FALSE /\ m_connected' = FALSE /\ m_chipid' = 0
                   /\ Return(0)
    /\ UNCHANGED << m_totrd, m_rdbuf, connrvs >>
    /\ CallUnchanged

\* ftdi_usb_close returns; close() returns
UsbClose ==
    /\ pc = "usb_close"
    /\ \E r \in FtdiResults :
         /\ log' = Append(log, Entry("usb_close", r, 0))
         /\ IF r < 0
              THEN Return(r) /\ UNCHANGED << m_opened, m_connected >>
              ELSE m_opened' = FALSE /\ m_connected' = FALSE /\ Return(0)
    /\ UNCHANGED << m_chipid, m_totrd, m_rdbuf, connrvs >>
    /\ CallUnchanged

-----------------------------------------------------------------------------
(* connect(): src/tmcController.hpp 1045-1155 *)

CallConnect ==
    /\ Enter("connect", 0)
    /\ pc' = ConnectStart
    /\ rv' = 0
    /\ SessionUnchanged

\* mutant of NewChipId: the identifier read does not reach m_chipid once
\* one is held
NewChipIdKeepsOld(id) == IF m_chipid = 0 THEN id ELSE m_chipid

\* m_chipid after ftdi_read_chipid(m_ftdi, &m_chipid) read the identifier id
NewChipId(id) == id

\* ftdi_read_chipid(m_ftdi, &m_chipid): on success the identifier is stored
\* in m_chipid; on failure libftdi leaves *chipid alone and connect()
\* returns off + rv
ReadChipIdWith(off) ==
    /\ pc = "read_chipid"
    /\ \E r \in FtdiResults, id \in ChipIds :
         IF r < 0
           THEN /\ log' = Append(log, Entry("read_chipid", r, 0))
                /\ m_chipid' = m_chipid
                /\ ConnectReturn(off + r, m_connected)
           ELSE /\ log' = Append(log, Entry("read_chipid", r, id))
                /\ m_chipid' = NewChipId(id)
                /\ pc' = "set_baudrate" /\ rv' = rv /\ connrvs' = connrvs
    /\ UNCHANGED << m_opened, m_connected, m_totrd, m_rdbuf >>
    /\ CallUnchanged

\* mutant of ReadChipId: the offset the doc comment of connect() gives
\* ("-10 + return value")
ReadChipIdDocOffset == ReadChipIdWith(-10)

ReadChipId == ReadChipIdWith(-20)

\* a step of the form  if((rv = ftdi_xxx(...)) < 0) return off + rv;
ConnectFtdiStep(call, off, next) ==
    /\ pc = call
    /\ \E r \in FtdiResults :
         /\ log' = Append(log, Entry(call, r, 0))
         /\ IF r < 0
              THEN ConnectReturn(off + r, m_connected)
              ELSE pc' = next /\ rv' = rv /\ connrvs' = connrvs
    /\ SessionUnchanged
    /\ CallUnchanged

\* a step of the form  try { sleep_for(...) } catch(...) { return code; }
ConnectSleepStep(call, code, next) ==
    /\ pc = call
    /\ \E ok \in BOOLEAN :
         /\ log' = Append(log, Entry(call, IF ok THEN 0 ELSE -1, 0))
         /\ IF ~ok
              THEN ConnectReturn(code, m_connected)
              ELSE pc' = next /\ rv' = rv /\ connrvs' = connrvs
    /\ SessionUnchanged
    /\ CallUnchanged

SetBaudrate == ConnectFtdiStep("set_baudrate", -30, "set_line_property_8N1")

SetLineProperty == ConnectFtdiStep("set_line_property_8N1", -40, "sleep_preFlush")

PreFlushSleep == ConnectSleepStep("sleep_preFlush", -49, "tcioflush")

\* mutant of TcioFlush: the result of ftdi_tcioflush is not tested, as in
\* TMCC_WRITE_COMMAND
TcioFlushUnchecked ==
    /\ pc = "tcioflush"
    /\ \E r \in FtdiResults :
         log' = Append(log, Entry("tcioflush", r, 0))
    /\ pc' = "sleep_postFlush"
    /\ UNCHANGED << rv, connrvs >>
    /\ SessionUnchanged
    /\ CallUnchanged

TcioFlush == ConnectFtdiStep("tcioflush", -50, "sleep_postFlush")

PostFlushSleep == ConnectSleepStep("sleep_postFlush", -59, "usb_reset")

UsbReset == ConnectFtdiStep("usb_reset", -60, "setflowctrl_RTS_CTS_HS")

SetFlowCtrl == ConnectFtdiStep("setflowctrl_RTS_CTS_HS", -70, "setrts_1")

\* the last step: on success m_connected = true and connect() returns 0
SetRts ==
    /\ pc = "setrts_1"
    /\ \E r \in FtdiResults :
         /\ log' = Append(log, Entry("setrts_1", r, 0))
         /\ IF r < 0
              THEN m_connected' = m_connected /\ ConnectReturn(-80 + r, m_connected)
              ELSE m_connected' = TRUE /\ ConnectReturn(0, TRUE)
    /\ UNCHANGED << m_opened, m_chipid, m_totrd, m_rdbuf >>
    /\ CallUnchanged

-----------------------------------------------------------------------------
(* The catalog commands: src/tmcController.hpp 1215-1227, 1299-1738 *)

\* entry of a command: its argument checks, then TMCC_CHECK_CONNECTED
CallCmd(c, a) ==
    /\ Enter(c, a)
    /\ rv' = ValidationCode(c, a)
    /\ pc' = IF ValidationCode(c, a) # 0
               THEN "idle"
               ELSE IF ~m_connected THEN ConnectStart ELSE BodyStart(c)
    /\ SessionUnchanged

\* outcomes of ftdi_write_data asked to write n bytes: an error, all the
\* bytes, or fewer
WriteResults(n) == RawCodes \cup {n, n - 1}

\* the code returned when ftdi_write_data failed with r
WriteCodeRaw(r) == r

WriteCodeOffsetsSentinel(r) == -100 + r

WriteCode(r) == IF r = Unavailable THEN r ELSE -100 + r

\* the code returned when ftdi_read_data failed with r
ReadCodeAsWrite(r) == IF r = Unavailable THEN r ELSE -100 + r

ReadCode(r) == IF r = Unavailable THEN r ELSE -200 + r

ReadStartNoReset ==
    /\ m_totrd' = m_totrd
    /\ m_rdbuf' = m_rdbuf
    /\ pc' = "read_data"
    /\ rv' = rv

\* m_totrd = 0 at the head of TMCC_READ_RESPONSE
ReadStart ==
    /\ m_totrd' = 0
    /\ m_rdbuf' = m_rdbuf
    /\ pc' = "read_data"
    /\ rv' = rv

\* TMCC_WRITE_REQUEST and what follows it in the command
WriteRequest ==
    /\ pc = "write_request"
    /\ \E r \in WriteResults(6) :
         /\ log' = Append(log, Entry("write_data", r, 6))
         /\ IF r < 0
              THEN Return(WriteCode(r)) /\ UNCHANGED << m_totrd, m_rdbuf >>
              ELSE IF op \notin ReadCmds
                     THEN Return(0) /\ UNCHANGED << m_totrd, m_rdbuf >>
                     ELSE IF op = "mod_set_chanenablestate"
                            THEN /\ pc' = "sleep_postChanEnable"
                                 /\ rv' = rv
                                 /\ UNCHANGED << m_totrd, m_rdbuf >>
                            ELSE ReadStart
    /\ UNCHANGED << m_opened, m_connected, m_chipid, connrvs >>
    /\ CallUnchanged

\* mod_set_chanenablestate: the sleep before the flushing read
ChanEnableSleep ==
    /\ pc = "sleep_postChanEnable"
    /\ \E ok \in BOOLEAN :
         /\ log' = Append(log, Entry("sleep_postChanEnable", IF ok THEN 0 ELSE -1, 0))
         /\ IF ~ok
              THEN Return(-700) /\ UNCHANGED << m_totrd, m_rdbuf >>
              ELSE ReadStart
    /\ UNCHANGED << m_opened, m_connected, m_chipid, connrvs >>
    /\ CallUnchanged

\* TMCC_WRITE_COMMAND, first call: rv = ftdi_tcioflush(m_ftdi), rv not tested
CmdTcioFlush ==
    /\ pc = "cmd_tcioflush"
    /\ \E r \in FtdiResults :
         log' = Append(log, Entry("tcioflush", r, 0))
    /\ pc' = "cmd_sleep_postFlush"
    /\ UNCHANGED << rv, connrvs >>
    /\ SessionUnchanged
    /\ CallUnchanged

\* TMCC_WRITE_COMMAND, second call: sleep_for outside any try block
CmdSleep ==
    /\ pc = "cmd_sleep_postFlush"
    /\ \E ok \in BOOLEAN :
         /\ log' = Append(log, Entry("sleep_postFlush", IF ok THEN 0 ELSE -1, 0))
         /\ IF ok
              THEN pc' = "cmd_write_data" /\ threw' = threw
              ELSE pc' = "idle" /\ threw' = TRUE
    /\ UNCHANGED << rv, connrvs, op, arg, pre, out, caller >>
    /\ SessionUnchanged

\* TMCC_WRITE_COMMAND, third call: ftdi_write_data(m_ftdi, m_sndbuf, esz)
CmdWrite ==
    /\ pc = "cmd_write_data"
    /\ \E r \in WriteResults(CommandSize(op)) :
         /\ log' = Append(log, Entry("write_data", r, CommandSize(op)))
         /\ IF r < 0 THEN Return(WriteCode(r)) ELSE Return(0)
    /\ UNCHANGED connrvs
    /\ SessionUnchanged
    /\ CallUnchanged

\* number of ftdi_read_data calls the public call has made
ReadsDone == Cardinality({ i \in DOMAIN log : log[i].call = "read_data" })

\* byte counts ftdi_read_data may deliver when esz bytes are expected: none,
\* one less than what is missing, what is missing, one more than that, or
\* all the room it was given; never more than that room, and after MaxReads
\* reads enough to end the loop
ReadSizes(esz) ==
    { n \in {0, esz - m_totrd - 1, esz - m_totrd, esz - m_totrd + 1, RdBufSize - m_totrd} :
        /\ n >= 0
        /\ n <= RdBufSize - m_totrd
        /\ (ReadsDone >= MaxReads => m_totrd + n >= esz) }

DecodeCodeAlwaysOk(c, buf) == 0

\* what the command returns after a response of the right length: only
\* mod_req_chanenablestate rejects a response, by m_rdbuf[3]
DecodeCode(c, buf) ==
    IF c = "mod_req_chanenablestate"
      THEN IF buf[3] = 1 \/ buf[3] = 2 THEN 0 ELSE -1000
      ELSE 0

\* the bytes the ftdi_read_data calls lg[1..i] stored, in order: since
\* m_totrd was reset they are m_rdbuf[0 .. m_totrd-1]
RECURSIVE Received(_, _)
Received(lg, i) ==
    IF i = 0
      THEN << >>
      ELSE Received(lg, i - 1) \o
           (IF lg[i].call = "read_data" /\ lg[i].res > 0
              THEN [ j \in 1 .. lg[i].res |-> lg[i].fill ]
              ELSE << >>)

\* a byte sequence as the buffer it fills, indexed from 0 as m_rdbuf is
Buf(bytes) == [ k \in 0 .. Len(bytes) - 1 |-> bytes[k + 1] ]

\* *((uint16_t*) &m_rdbuf[o]), little endian
LE16(b, o) == b[o] + 256 * b[o + 1]

S16Unsigned(x) == x

\* sixteen bits read as int16_t
S16(x) == IF x >= 32768 THEN x - 65536 ELSE x

\* *((uint32_t*) &m_rdbuf[o]), little endian, kept as its two 16-bit halves
\* (a uint32_t does not fit the integers of the model checker)
LE32(b, o) == [lo |-> LE16(b, o), hi |-> LE16(b, o + 2)]

\* *((int32_t*) &m_rdbuf[o]), little endian
SLE32(b, o) == LE16(b, o) + 65536 * S16(LE16(b, o + 2))

BitNever(w, n) == FALSE

\* bits & (1 << n), converted to bool
Bit(w, n) ==
    IF n < 16
      THEN (w.lo \div (2 ^ n)) % 2 = 1
      ELSE (w.hi \div (2 ^ (n - 16))) % 2 = 1

\* a char array assigned to a std::string: the bytes before the first NUL
RECURSIVE CStr(_)
CStr(bytes) ==
    IF bytes = << >> \/ Head(bytes) = 0
      THEN << >>
      ELSE << Head(bytes) >> \o CStr(Tail(bytes))

\* the EnableState mod_req_chanenablestate assigns for m_rdbuf[3]:
\* enabled = 1, disabled = 2, invalid = 0
EnableStateOf(byte) == IF byte = 1 THEN 1 ELSE IF byte = 2 THEN 2 ELSE 0

VoltLimitOfLowByte(vl) == IF vl % 256 \in {1, 2, 3} THEN vl % 256 ELSE 0

\* the VoltLimit pz_req_tpz_iosettings assigns for the code vl:
\* V75 = 1, V100 = 2, V150 = 3, INVALID = 0
VoltLimitOf(vl) == IF vl = 1 THEN 1 ELSE IF vl = 2 THEN 2 ELSE IF vl = 3 THEN 3 ELSE 0

EncodeVoltsOneScale(n, d) ==
    IF n > 0
      THEN (n * 32768) \div d
      ELSE -(((-n) * 32768) \div d)

\* pz_set_outputvolts: the int16_t iov for ov = n / d, the product converted
\* to an integer by dropping its fraction
EncodeVolts(n, d) ==
    IF n > 0
      THEN (n * 32767) \div d
      ELSE -(((-n) * 32768) \div d)

\* *((int16_t*) &m_sndbuf[8]) = x: the two bytes stored, little endian,
\* of the 16 bits of x
Int16Bytes(x) == << (x % 65536) % 256, (x % 65536) \div 256 >>

\* pz_req_outputvolts: ov for the int16_t iov, as the fraction num / den
DecodeVolts(iov) == [num |-> iov, den |-> IF iov > 0 THEN 32767 ELSE 32768]

\* what a command assigns to its output argument from the response b
\* (statusTime of pz_req_pzstatusupdate, the time of the call, is left out)
Decode(c, b) ==
    CASE c = "mod_req_chanenablestate" ->
           << [ces |-> EnableStateOf(b[3])] >>
      [] c = "hw_req_info" ->
           << [serialNumber |-> LE32(b, 6),
               modelNumber  |-> CStr([ j \in 1 .. 8 |-> b[9 + j] ]),
               type         |-> LE16(b, 18),
               fwMin        |-> b[20],
               fwInt        |-> b[21],
               fwMaj        |-> b[22],
               hwVer        |-> LE16(b, 84),
               hwMod        |-> LE16(b, 86),
               nChannels    |-> LE16(b, 88)] >>
      [] c = "pz_req_outputvolts" ->
           << [ov |-> DecodeVolts(S16(LE16(b, 8)))] >>
      [] c = "pz_req_pzstatusupdate" ->
           << [voltage     |-> S16(LE16(b, 8)),
               position    |-> S16(LE16(b, 10)),
               connected   |-> Bit(LE32(b, 12), 0),
               zeroed      |-> Bit(LE32(b, 12), 4),
               zeroing     |-> Bit(LE32(b, 12), 5),
               sgConnected |-> Bit(LE32(b, 12), 8),
               pcMode      |-> Bit(LE32(b, 12), 10)] >>
      [] c = "pz_req_tpz_dispsettings" ->
           << [dispint |-> LE16(b, 6)] >>
      [] c = "pz_req_tpz_iosettings" ->
           << [VoltageLimit   |-> VoltLimitOf(LE16(b, 8)),
               HubAnalogInput |-> LE16(b, 10)] >>
      [] c = "kpz_req_kcubemmiparams" ->
           << [JSMode         |-> LE16(b, 8),
               JSVoltGearBox  |-> LE16(b, 10),
               JSVoltStep     |-> SLE32(b, 12),
               DirSense       |-> S16(LE16(b, 16)),
               PresetVolt1    |-> SLE32(b, 18),
               PresetVolt2    |-> SLE32(b, 22),
               DispBrightness |-> LE16(b, 26),
               DispTimeout    |-> LE16(b, 28),
               DispDimLevel   |-> LE16(b, 30)] >>
      [] OTHER -> << >>

LengthMismatchShortOnly(tot, esz) == tot < esz /\ esz > 0

LengthMismatchAnySize(tot, esz) == tot # esz

\* the test TMCC_READ_RESPONSE makes after its loop, on m_totrd
LengthMismatch(tot, esz) == tot # esz /\ esz > 0

\* one turn of the do-while of TMCC_READ_RESPONSE, and the code after the
\* loop when the turn ends it
ReadData ==
    /\ pc = "read_data"
    /\ \E r \in RawCodes \cup ReadSizes(ResponseSize(op)) :
         IF r < 0
           THEN /\ log' = Append(log, ReadEntry(r, RdBufSize - m_totrd, 0))
                /\ Return(ReadCode(r))
                /\ UNCHANGED << m_totrd, m_rdbuf, out >>
           ELSE \E b \in (IF r = 0 THEN {0} ELSE WireBytes) :
                /\ log' = Append(log, ReadEntry(r, RdBufSize - m_totrd, b))
                /\ m_totrd' = m_totrd + r
                /\ m_rdbuf' = Store(m_rdbuf, m_totrd, r, b)
                /\ IF m_totrd + r < ResponseSize(op)
                     THEN pc' = "read_data" /\ rv' = rv /\ out' = out
                     ELSE IF LengthMismatch(m_totrd + r, ResponseSize(op))
                            THEN Return(-300) /\ out' = out
                            ELSE /\ Return(DecodeCode(op, Store(m_rdbuf, m_totrd, r, b)))
                                 /\ out' = Decode(op, Buf(Received(log', Len(log'))))
    /\ UNCHANGED << m_opened, m_connected, m_chipid, connrvs >>
    /\ UNCHANGED << op, arg, threw, pre, caller,
                    m_vendor, m_product, m_serial, wire, m_sndbuf >>

-----------------------------------------------------------------------------
Next ==
    \/ CallOpen
    \/ UsbOpen
    \/ CallClose
    \/ UsbClose
    \/ CallConnect
    \/ ReadChipId
    \/ SetBaudrate
    \/ SetLineProperty
    \/ PreFlushSleep
    \/ TcioFlush
    \/ PostFlushSleep
    \/ UsbReset
    \/ SetFlowCtrl
    \/ SetRts
    \/ \E c \in Catalog : \E a \in Args(c) : CallCmd(c, a)
    \/ WriteRequest
    \/ ChanEnableSleep
    \/ CmdTcioFlush
    \/ CmdSleep
    \/ CmdWrite
    \/ ReadData

Spec == Init /\ [][Next]_vars

-----------------------------------------------------------------------------
(* The identification parameters: the setters vendor(), product() and      *)
(* serial() and the overloads of open() and connect() that call them       *)
(* (src/tmcController.hpp 923-939, 999-1019, 1157-1177), together with the *)
(* session lifecycle.                                                       *)

\* identifiers a caller may pass
Vendors == {DefaultVendor, 1}

Products == {DefaultProduct, 1}

Serials == {"", "A"}

\* the frame of a setter: one assignment, nothing else
SetterUnchanged ==
    UNCHANGED << m_opened, m_connected, m_chipid, m_totrd, m_rdbuf,
                 pc, op, arg, rv, threw, log, pre, connrvs, out, wire, caller, m_sndbuf >>

\* void vendor(uint16_t v)
SetVendor ==
    /\ pc = "idle"
    /\ \E v \in Vendors : m_vendor' = v
    /\ UNCHANGED << m_product, m_serial >>
    /\ SetterUnchanged

\* void product(uint16_t p)
SetProduct ==
    /\ pc = "idle"
    /\ \E p \in Products : m_product' = p
    /\ UNCHANGED << m_vendor, m_serial >>
    /\ SetterUnchanged

\* void serial(const std::string & s)
SetSerial ==
    /\ pc = "idle"
    /\ \E s \in Serials : m_serial' = s
    /\ UNCHANGED << m_vendor, m_product >>
    /\ SetterUnchanged

\* the frame of an overload: it assigns identification parameters and
\* enters open() or connect()
OverloadUnchanged ==
    UNCHANGED << m_opened, m_connected, m_chipid, m_totrd, m_rdbuf, wire, m_sndbuf >>

\* int open(const std::string & s, bool): serial(s); return open(errmsg);
CallOpenSerial ==
    /\ Enter("open", 0)
    /\ \E s \in Serials : m_serial' = s
    /\ pc' = "usb_open_desc_index"
    /\ rv' = 0
    /\ UNCHANGED << m_vendor, m_product >>
    /\ OverloadUnchanged

\* int open(uint16_t v, uint16_t p, const std::string & s, bool)
CallOpenIds ==
    /\ Enter("open", 0)
    /\ \E v \in Vendors, p \in Products, s \in Serials :
         m_vendor' = v /\ m_product' = p /\ m_serial' = s
    /\ pc' = "usb_open_desc_index"
    /\ rv' = 0
    /\ OverloadUnchanged

\* int connect(const std::string & s, bool): serial(s); return connect(errmsg);
CallConnectSerial ==
    /\ Enter("connect", 0)
    /\ \E s \in Serials : m_serial' = s
    /\ pc' = ConnectStart
    /\ rv' = 0
    /\ UNCHANGED << m_vendor, m_product >>
    /\ OverloadUnchanged

\* int connect(uint16_t v, uint16_t p, const std::string & s, bool)
CallConnectIds ==
    /\ Enter("connect", 0)
    /\ \E v \in Vendors, p \in Products, s \in Serials :
         m_vendor' = v /\ m_product' = p /\ m_serial' = s
    /\ pc' = ConnectStart
    /\ rv' = 0
    /\ OverloadUnchanged

NextIdent ==
    \/ SetVendor
    \/ SetProduct
    \/ SetSerial
    \/ CallOpenSerial
    \/ CallOpenIds
    \/ CallConnectSerial
    \/ CallConnectIds
    \/ CallOpen
    \/ UsbOpen
    \/ CallClose
    \/ UsbClose
    \/ CallConnect
    \/ ReadChipId
    \/ SetBaudrate
    \/ SetLineProperty
    \/ PreFlushSleep
    \/ TcioFlush
    \/ PostFlushSleep
    \/ UsbReset
    \/ SetFlowCtrl
    \/ SetRts

SpecIdent == Init /\ [][NextIdent]_vars

-----------------------------------------------------------------------------
(* The decoders of hw_req_info and pz_req_pzstatusupdate applied to whole  *)
(* responses: arg is the response found in m_rdbuf[0 .. N-1] when          *)
(* TMCC_READ_RESPONSE has ended with m_totrd = N, out the record decoded.   *)

\* a response of n bytes that is 0 except where the function at gives a byte
Response(n, at) == [ k \in 1 .. n |-> IF k - 1 \in DOMAIN at THEN at[k - 1] ELSE 0 ]

\* the bytes seq, stored from offset o on
At(o, seq) == [ k \in o .. o + Len(seq) - 1 |-> seq[k - o + 1] ]

\* two functions with disjoint domains, as one
Join(f, g) == [ k \in DOMAIN f \cup DOMAIN g |-> IF k \in DOMAIN f THEN f[k] ELSE g[k] ]

\* serial numbers, as the four bytes at offset 6: 29252712 and 0xFFFFFFFF
SerialBytes == { << 104, 92, 190, 1 >>, << 255, 255, 255, 255 >> }

\* model numbers, as the eight bytes at offset 10: "KPZ101  ", "KPZ101"
\* followed by two NULs, "TPZ001  "
ModelBytes ==
    { << 75, 80, 90, 49, 48, 49, 32, 32 >>,
      << 75, 80, 90, 49, 48, 49, 0, 0 >>,
      << 84, 80, 90, 48, 48, 49, 32, 32 >> }

\* values of a firmware version byte
FwBytes == {1, 2, 3}

\* the 90-byte responses to hw_req_info the decoder is applied to
HwInfoResponses ==
    { Response(90, Join(Join(At(6, sn), At(10, mn)), At(20, << f0, f1, f2 >>))) :
        sn \in SerialBytes, mn \in ModelBytes, f0 \in FwBytes, f1 \in FwBytes, f2 \in FwBytes }

\* 16-bit values, as two bytes: 0, 32767, -32768, -1, 0x1234
WordBytes == { << 0, 0 >>, << 255, 127 >>, << 0, 128 >>, << 255, 255 >>, << 52, 18 >> }

\* the 16-byte responses to pz_req_pzstatusupdate the decoder is applied to:
\* every value of the low eleven status bits with the upper bits all clear
\* or all set, and every pair of the voltages and positions above
StatusResponses ==
    { Response(16, At(12, << lo % 256, (lo \div 256) + up * 248, up * 255, up * 255 >>)) :
        lo \in 0 .. 2047, up \in {0, 1} }
    \cup
    { Response(16, Join(At(8, v), At(10, q))) : v \in WordBytes, q \in WordBytes }

InitDecode ==
    /\ m_opened = FALSE
    /\ m_connected = FALSE
    /\ m_chipid = 0
    /\ m_totrd = 0
    /\ m_rdbuf = [ o \in RdOffsets |-> 0 ]
    /\ pc = "decode"
    /\ \/ op = "hw_req_info" /\ arg \in HwInfoResponses
       \/ op = "pz_req_pzstatusupdate" /\ arg \in StatusResponses
    /\ rv = 0
    /\ threw = FALSE
    /\ log = << >>
    /\ pre = [opened |-> FALSE, connected |-> FALSE]
    /\ connrvs = << >>
    /\ out = << >>
    /\ m_vendor = DefaultVendor
    /\ m_product = DefaultProduct
    /\ m_serial = ""
    /\ wire = << >>
    /\ m_sndbuf = NoRequest
    /\ caller = 1

\* the statements of the command after TMCC_READ_RESPONSE
DecodeResponse ==
    /\ pc = "decode"
    /\ pc' = "done"
    /\ out' = Decode(op, Buf(arg))
    /\ UNCHANGED << m_opened, m_connected, m_chipid, m_totrd, m_rdbuf,
                    op, arg, rv, threw, log, pre, connrvs,
                    m_vendor, m_product, m_serial, wire, caller, m_sndbuf >>

NextDecode == DecodeResponse

SpecDecode == InitDecode /\ [][NextDecode]_vars

\* HWInfo::dump: the numbers of the "F/W Ver." line, in the order printed
FwVersion(hwi) == << hwi.fwMaj, hwi.fwMin, hwi.fwInt >>

-----------------------------------------------------------------------------
(* The requests: what each catalog command stores in m_sndbuf between      *)
(* TMCC_CHECK_CONNECTED and its TMCC_WRITE_REQUEST / TMCC_WRITE_COMMAND     *)
(* (src/tmcController.hpp 1291-1297, 1356-1738).  arg is the record of the  *)
(* command's input arguments, out the bytes handed to ftdi_write_data.      *)
(* m_sndbuf has no initializer and keeps the bytes of earlier requests, so  *)
(* its content before the command is any of SndBufs.                        *)

\* m_sndbuf before the command: two fillings stand for the bytes left there
SndBufs == { [k \in SndOffsets |-> f] : f \in {0, 170} }

\* m_sndbuf with the bytes of seq stored from offset o on
Put(buf, o, seq) ==
    [k \in SndOffsets |-> IF o <= k /\ k < o + Len(seq) THEN seq[k - o + 1] ELSE buf[k]]

UInt16BytesSwapped(x) == << (x % 65536) \div 256, (x % 65536) % 256 >>

\* *((uint16_t*) &m_sndbuf[o]) = x: the two bytes stored, little endian;
\* an int16_t x is converted to uint16_t first
UInt16Bytes(x) == << (x % 65536) % 256, (x % 65536) \div 256 >>

Int32BytesLowHalf(x) == << (x % 65536) % 256, (x % 65536) \div 256, 0, 0 >>

\* *((int32_t*) &m_sndbuf[o]) = x: the four bytes stored, little endian
Int32Bytes(x) ==
    LET lo == x % 65536
        hi == ((x - lo) \div 65536) % 65536
    IN  UInt16Bytes(lo) \o UInt16Bytes(hi)

OrHighBitDropped(b) == b

\* b | 0x80
OrHighBit(b) == IF b >= 128 THEN b ELSE b + 128

\* the arguments of TMCC_SNDBUF_HEAD in each command
SndBufHead(c, a) ==
    CASE c = "mod_identify"            -> << 35, 2, 0, 0, 80, 1 >>
      [] c = "mod_set_chanenablestate" -> << 16, 2, a.chnum, a.ces, 80, 1 >>
      [] c = "mod_req_chanenablestate" -> << 17, 2, a.chnum, 0, 80, 1 >>
      [] c = "hw_stop_updatemsgs"      -> << 18, 0, 0, 0, 80, 1 >>
      [] c = "hw_req_info"             -> << 5, 0, 0, 0, 80, 1 >>
      [] c = "pz_set_outputvolts"      -> << 67, 6, 4, 0, OrHighBit(80), 1 >>
      [] c = "pz_req_outputvolts"      -> << 68, 6, 1, 0, 80, 1 >>
      [] c = "pz_req_pzstatusupdate"   -> << 96, 6, 1, 0, 80, 1 >>
      [] c = "pz_set_tpz_dispsettings" -> << 209, 7, 2, 0, OrHighBit(80), 1 >>
      [] c = "pz_req_tpz_dispsettings" -> << 210, 7, 1, 0, 80, 1 >>
      [] c = "pz_set_tpz_iosettings"   -> << 212, 7, 10, 0, OrHighBit(80), 1 >>
      [] c = "pz_req_tpz_iosettings"   -> << 213, 7, 1, 0, 80, 1 >>
      [] c = "kpz_set_kcubemmiparams"  -> << 240, 7, 34, 0, OrHighBit(80), 1 >>
      [] c = "kpz_req_kcubemmiparams"  -> << 241, 7, 1, 0, 80, 1 >>

\* the bytes a command stores behind the header: offsets 32 and 33 of
\* kpz_set_kcubemmiparams are not assigned and keep what buf holds
Payload(c, a, buf) ==
    CASE c = "pz_set_outputvolts" ->
           Put(Put(buf, 6, << 1, 0 >>), 8, Int16Bytes(EncodeVolts(a.ov, OvDen)))
      [] c = "pz_set_tpz_dispsettings" ->
           Put(buf, 6, UInt16Bytes(a.dispint))
      [] c = "pz_set_tpz_iosettings" ->
           Put(buf, 6, << 1, 0 >> \o UInt16Bytes(a.VoltageLimit)
                         \o UInt16Bytes(a.HubAnalogInput) \o << 0, 0, 0, 0 >>)
      [] c = "kpz_set_kcubemmiparams" ->
           Put(Put(buf, 6, << 1, 0 >> \o UInt16Bytes(a.JSMode)
                             \o UInt16Bytes(a.JSVoltGearBox) \o Int32Bytes(a.JSVoltStep)
                             \o UInt16Bytes(a.DirSense) \o Int32Bytes(a.PresetVolt1)
                             \o Int32Bytes(a.PresetVolt2) \o UInt16Bytes(a.DispBrightness)
                             \o UInt16Bytes(a.DispTimeout) \o UInt16Bytes(a.DispDimLevel)),
               34, << 0, 0, 0, 0, 0, 0 >>)
      [] OTHER -> buf

\* m_sndbuf when the command reaches its write
SndBuf(c, a, buf) == Payload(c, a, Put(buf, 0, SndBufHead(c, a)))

\* the input arguments of the commands; ces and VoltageLimit are enum classes
\* over uint8_t and uint16_t and can hold any value of those types
RequestArgs(c) ==
    CASE c = "mod_set_chanenablestate" -> [chnum : {1, 2}, ces : {0, 1, 2, 3, 255}]
      [] c = "mod_req_chanenablestate" -> [chnum : {1, 2}]
      [] c = "pz_set_outputvolts" ->
           [ov : {-(OvDen + 1), -OvDen, -1, 0, 1, OvDen, OvDen + 1}]
      [] c = "pz_set_tpz_dispsettings" -> [dispint : {0, 255, 256, 65535}]
      [] c = "pz_set_tpz_iosettings" ->
           [VoltageLimit : {0, 1, 2, 3, 4, 65535}, HubAnalogInput : {1, 2, 3}]
      [] c = "kpz_set_kcubemmiparams" ->
           [JSMode : {1, 2}, JSVoltGearBox : {3}, JSVoltStep : {1, -1, 65536},
            DirSense : {0, -1}, PresetVolt1 : {0, 70000}, PresetVolt2 : {0},
            DispBrightness : {100}, DispTimeout : {0, 480}, DispDimLevel : {10}]
      [] OTHER -> {[none |-> 0]}

\* the argument the command validates before TMCC_CHECK_CONNECTED
ControlArg(c, a) ==
    CASE c = "mod_set_chanenablestate" -> a.ces
      [] c = "pz_set_outputvolts"      -> a.ov
      [] c = "pz_set_tpz_iosettings"   -> a.VoltageLimit
      [] OTHER                         -> 0

InitRequest ==
    /\ m_opened = TRUE
    /\ m_connected = TRUE
    /\ m_chipid = 1
    /\ m_totrd = 0
    /\ m_rdbuf = [ o \in RdOffsets |-> 0 ]
    /\ pc = "build"
    /\ op \in Catalog
    /\ arg \in RequestArgs(op)
    /\ rv = 0
    /\ threw = FALSE
    /\ log = << >>
    /\ pre = [opened |-> TRUE, connected |-> TRUE]
    /\ connrvs = << >>
    /\ out = << >>
    /\ m_vendor = DefaultVendor
    /\ m_product = DefaultProduct
    /\ m_serial = ""
    /\ wire = << >>
    /\ caller = 1
    /\ m_sndbuf \in SndBufs

\* the command from its entry to the ftdi_write_data of its request: out is
\* the buffer and the size passed to it
BuildRequest ==
    /\ pc = "build"
    /\ pc' = "done"
    /\ IF ValidationCode(op, ControlArg(op, arg)) # 0
         THEN /\ rv' = ValidationCode(op, ControlArg(op, arg))
              /\ UNCHANGED << m_sndbuf, out >>
         ELSE /\ rv' = 0
              /\ m_sndbuf' = SndBuf(op, arg, m_sndbuf)
              /\ out' = << [ k \in 1 .. CommandSize(op) |-> m_sndbuf'[k - 1] ] >>
    /\ UNCHANGED << m_opened, m_connected, m_chipid, m_totrd, m_rdbuf,
                    op, arg, threw, log, pre, connrvs,
                    m_vendor, m_product, m_serial, wire, caller >>

\* the get command that reads back what the set command c wrote
ReqOf(c) ==
    CASE c = "pz_set_tpz_dispsettings" -> "pz_req_tpz_dispsettings"
      [] c = "pz_set_tpz_iosettings"   -> "pz_req_tpz_iosettings"
      [] c = "kpz_set_kcubemmiparams"  -> "kpz_req_kcubemmiparams"

\* the response to the get command g that returns the payload of the request
\* req (its bytes from offset 6 on) at the same offsets
Echo(g, req) ==
    [ k \in 1 .. ResponseSize(g) |-> IF 6 < k /\ k <= Len(req) THEN req[k] ELSE 0 ]

\* the get command applied to the echo of the request just built: out gets
\* the record it decodes, behind the request
DecodeEcho ==
    /\ pc = "done"
    /\ rv = 0
    /\ op \in {"pz_set_tpz_dispsettings", "pz_set_tpz_iosettings", "kpz_set_kcubemmiparams"}
    /\ pc' = "echo"
    /\ out' = out \o Decode(ReqOf(op), Buf(Echo(ReqOf(op), out[1])))
    /\ UNCHANGED << m_opened, m_connected, m_chipid, m_totrd, m_rdbuf,
                    op, arg, rv, threw, log, pre, connrvs,
                    m_vendor, m_product, m_serial, wire, caller, m_sndbuf >>

NextRequest == BuildRequest \/ DecodeEcho

SpecRequest == InitRequest /\ [][NextRequest]_vars

-----------------------------------------------------------------------------
(* The byte stream from the device: the response-reading commands on a     *)
(* connected session, with the bytes the device has sent waiting in wire    *)
(* until an ftdi_read_data delivers them (src/tmcController.hpp 1299-1354,  *)
(* 1369-1443, 1457-1484, 1526-1582, 1602-1616, 1646-1660, 1714-1738).       *)
(* Every byte is a record: its value, whether it answers the request of the *)
(* call being executed (age 0) or an earlier one (age 1), and the thread    *)
(* that made that call.  m_rdbuf is the sequence m_rdbuf[0 .. m_totrd-1].   *)
(* The calls of the threads are serialized: a call is entered only when no  *)
(* call is running.  TMCC_READ_RESPONSE takes two steps a turn of its loop, *)
(* the ftdi_read_data and the test of the do-while.                         *)

Threads == {1, 2}

\* the commands called: the one that drains, and two that decode a response
StreamCmds == { "mod_set_chanenablestate", "mod_req_chanenablestate", "pz_req_outputvolts" }

\* n bytes of value v sent in reply to the request of the running call
Reply(n, v, t) == [ i \in 1 .. n |-> [val |-> v, age |-> 0, by |-> t] ]

\* the bytes once the call they answer has returned
Aged(seq) == [ i \in 1 .. Len(seq) |-> [seq[i] EXCEPT !.age = 1] ]

\* what the device sends when it has received the request of c: the response
\* of c, and for mod_set_chanenablestate either nothing or the 10 characters
\* it sends on a change of state
DeviceReplies(c, t) ==
    IF c = "mod_set_chanenablestate"
      THEN { << >>, Reply(10, 3, t) }
      ELSE { Reply(ResponseSize(c), 1, t) }

\* a command is called by thread t
StreamCall(c, t) ==
    /\ pc = "idle"
    /\ Len(wire) <= MaxPending
    /\ op' = c
    /\ arg' = IF c = "mod_set_chanenablestate" THEN 1 ELSE 0
    /\ caller' = t
    /\ rv' = 0
    /\ pc' = "write_request"
    /\ wire' = Aged(wire)
    /\ m_rdbuf' = Aged(m_rdbuf)
    /\ UNCHANGED << m_opened, m_connected, m_chipid, m_totrd, threw, log, pre,
                    connrvs, out, m_vendor, m_product, m_serial, m_sndbuf >>

\* m_totrd = 0 at the head of TMCC_READ_RESPONSE
StreamReadStart ==
    /\ m_totrd' = 0
    /\ m_rdbuf' = << >>
    /\ pc' = "read_data"
    /\ rv' = rv

\* TMCC_WRITE_REQUEST: nothing is read or discarded before the write; the
\* device answers a request it received whole
StreamWrite ==
    /\ pc = "write_request"
    /\ \E r \in WriteResults(6) :
         IF r < 0
           THEN Return(WriteCode(r)) /\ UNCHANGED << m_totrd, m_rdbuf, wire >>
           ELSE /\ IF r = 6
                     THEN \E reply \in DeviceReplies(op, caller) : wire' = wire \o reply
                     ELSE wire' = wire
                /\ IF op = "mod_set_chanenablestate"
                     THEN /\ pc' = "sleep_postChanEnable"
                          /\ rv' = rv
                          /\ UNCHANGED << m_totrd, m_rdbuf >>
                     ELSE StreamReadStart
    /\ UNCHANGED << m_opened, m_connected, m_chipid, op, arg, threw, log, pre,
                    connrvs, out, m_vendor, m_product, m_serial, caller, m_sndbuf >>

\* mod_set_chanenablestate: the sleep before the flushing read
StreamSleep ==
    /\ pc = "sleep_postChanEnable"
    /\ \E ok \in BOOLEAN :
         IF ok THEN StreamReadStart
               ELSE Return(-700) /\ UNCHANGED << m_totrd, m_rdbuf >>
    /\ UNCHANGED << m_opened, m_connected, m_chipid, op, arg, threw, log, pre,
                    connrvs, out, m_vendor, m_product, m_serial, wire, caller,
                    m_sndbuf >>

\* byte counts ftdi_read_data may deliver: none, one, one less than what is
\* missing, what is missing, or all that wait; never more than wait or than
\* the room it was given
StreamReadSizes(esz) ==
    { n \in {0, 1, esz - m_totrd - 1, esz - m_totrd, Len(wire)} :
        n >= 0 /\ n <= Len(wire) /\ n <= RdBufSize - m_totrd }

\* rd = ftdi_read_data(m_ftdi, m_rdbuf + m_totrd, sizeof(m_rdbuf) - m_totrd)
\* and the code up to the test of the do-while
StreamRead ==
    /\ pc = "read_data"
    /\ \E r \in RawCodes \cup StreamReadSizes(ResponseSize(op)) :
         IF r < 0
           THEN Return(ReadCode(r)) /\ UNCHANGED << m_totrd, m_rdbuf, wire >>
           ELSE /\ m_totrd' = m_totrd + r
                /\ m_rdbuf' = m_rdbuf \o SubSeq(wire, 1, r)
                /\ wire' = SubSeq(wire, r + 1, Len(wire))
                /\ pc' = "read_while"
                /\ rv' = rv
    /\ UNCHANGED << m_opened, m_connected, m_chipid, op, arg, threw, log, pre,
                    connrvs, out, m_vendor, m_product, m_serial, caller, m_sndbuf >>

\* the values of m_rdbuf at the offsets RdOffsets
StreamValues == [ i \in RdOffsets |-> IF i < Len(m_rdbuf) THEN m_rdbuf[i + 1].val ELSE 0 ]

\* while(m_totrd < esz), and the code after the loop when it ends
StreamWhile ==
    /\ pc = "read_while"
    /\ IF m_totrd < ResponseSize(op)
         THEN pc' = "read_data" /\ rv' = rv
         ELSE IF LengthMismatch(m_totrd, ResponseSize(op))
                THEN Return(-300)
                ELSE Return(DecodeCode(op, StreamValues))
    /\ UNCHANGED << m_opened, m_connected, m_chipid, m_totrd, m_rdbuf, op, arg,
                    threw, log, pre, connrvs, out, m_vendor, m_product, m_serial,
                    wire, caller, m_sndbuf >>

InitStream ==
    /\ m_opened = TRUE
    /\ m_connected = TRUE
    /\ m_chipid = 1
    /\ m_totrd = 0
    /\ m_rdbuf = << >>
    /\ pc = "idle"
    /\ op = "none"
    /\ arg = 0
    /\ rv = 0
    /\ threw = FALSE
    /\ log = << >>
    /\ pre = [opened |-> TRUE, connected |-> TRUE]
    /\ connrvs = << >>
    /\ out = << >>
    /\ m_vendor = DefaultVendor
    /\ m_product = DefaultProduct
    /\ m_serial = ""
    /\ wire = << >>
    /\ caller = 1
    /\ m_sndbuf = NoRequest

NextStream ==
    \/ \E c \in StreamCmds : \E t \in Threads : StreamCall(c, t)
    \/ StreamWrite
    \/ StreamSleep
    \/ StreamRead
    \/ StreamWhile

SpecStream == InitStream /\ [][NextStream]_vars

\* the thread is scheduled and every transport call returns: a call that has
\* been entered goes on taking its steps
SpecStreamFair ==
    /\ SpecStream
    /\ WF_vars(StreamWrite)
    /\ WF_vars(StreamSleep)
    /\ WF_vars(StreamRead)
    /\ WF_vars(StreamWhile)

-----------------------------------------------------------------------------
(* The layered codes: the value a public call returns when one of its      *)
(* steps fails, as a function of the step and of the raw code the transport *)
(* gave (src/tmcController.hpp 982-991, 1062-1150, 1299-1354).  arg holds   *)
(* two failures, out the two values returned.                               *)

\* the libftdi calls of connect() whose code is returned with an offset
ConnectFtdiSites ==
    { "read_chipid", "set_baudrate", "set_line_property_8N1", "tcioflush",
      "usb_reset", "setflowctrl_RTS_CTS_HS", "setrts_1" }

\* the sleeps of connect(), which return a fixed code
ConnectSleepSites == { "sleep_preFlush", "sleep_postFlush" }

\* the places a failure is detected at
FailureSites ==
    {"usb_open_desc_index"} \cup ConnectFtdiSites \cup ConnectSleepSites
      \cup {"write_data", "read_data", "length"}

ConnectOffsetSame(s) == -20

\* the offset connect() adds to the code of its libftdi call s
ConnectOffset(s) ==
    CASE s = "read_chipid"            -> -20
      [] s = "set_baudrate"           -> -30
      [] s = "set_line_property_8N1"  -> -40
      [] s = "tcioflush"              -> -50
      [] s = "usb_reset"              -> -60
      [] s = "setflowctrl_RTS_CTS_HS" -> -70
      [] s = "setrts_1"               -> -80

\* the value returned when the step s fails, the transport giving r
FailureCode(s, r) ==
    CASE s = "usb_open_desc_index" -> OpenCode(r)
      [] s \in ConnectFtdiSites    -> ConnectOffset(s) + r
      [] s = "sleep_preFlush"      -> -49
      [] s = "sleep_postFlush"     -> -59
      [] s = "write_data"          -> WriteCode(r)
      [] s = "read_data"           -> ReadCode(r)
      [] s = "length"              -> -300

\* raw codes of the transport: -1 to -12 and the sentinel
RawRange == (-12 .. -1) \cup {Unavailable}

\* the failures: a step and the raw code it got (none for the sleeps and for
\* the length test; ftdi_usb_open_desc_index does not report the sentinel)
Failures ==
    { f \in [site : FailureSites, raw : RawRange \cup {0}] :
        /\ f.raw = 0 <=> f.site \in ConnectSleepSites \cup {"length"}
        /\ f.site = "usb_open_desc_index" => f.raw # Unavailable }

InitCodes ==
    /\ m_opened = FALSE
    /\ m_connected = FALSE
    /\ m_chipid = 0
    /\ m_totrd = 0
    /\ m_rdbuf = [ o \in RdOffsets |-> 0 ]
    /\ pc = "fail"
    /\ op = "none"
    /\ arg \in [one : Failures, other : Failures]
    /\ rv = 0
    /\ threw = FALSE
    /\ log = << >>
    /\ pre = [opened |-> FALSE, connected |-> FALSE]
    /\ connrvs = << >>
    /\ out = << >>
    /\ m_vendor = DefaultVendor
    /\ m_product = DefaultProduct
    /\ m_serial = ""
    /\ wire = << >>
    /\ caller = 1
    /\ m_sndbuf = NoRequest

\* the two failures are given their codes
ReturnCodes ==
    /\ pc = "fail"
    /\ pc' = "coded"
    /\ out' = << FailureCode(arg.one.site, arg.one.raw),
                 FailureCode(arg.other.site, arg.other.raw) >>
    /\ UNCHANGED << m_opened, m_connected, m_chipid, m_totrd, m_rdbuf,
                    op, arg, rv, threw, log, pre, connrvs,
                    m_vendor, m_product, m_serial, wire, caller, m_sndbuf >>

NextCodes == ReturnCodes

SpecCodes == InitCodes /\ [][NextCodes]_vars

-----------------------------------------------------------------------------
(* The voltage conversions of pz_set_outputvolts and pz_req_outputvolts,   *)
(* applied one after the other to every ov = arg / OvDen in [-1.0, 1.0]:    *)
(* out holds the integer computed, the bytes stored at m_sndbuf[8..9] and   *)
(* the ov decoded from the same bytes found at m_rdbuf[8..9].               *)

InitVolts ==
    /\ m_opened = FALSE
    /\ m_connected = FALSE
    /\ m_chipid = 0
    /\ m_totrd = 0
    /\ m_rdbuf = [ o \in RdOffsets |-> 0 ]
    /\ pc = "encode"
    /\ op = "pz_set_outputvolts"
    /\ arg \in -OvDen .. OvDen
    /\ rv = 0
    /\ threw = FALSE
    /\ log = << >>
    /\ pre = [opened |-> FALSE, connected |-> FALSE]
    /\ connrvs = << >>
    /\ out = << >>
    /\ m_vendor = DefaultVendor
    /\ m_product = DefaultProduct
    /\ m_serial = ""
    /\ wire = << >>
    /\ m_sndbuf = NoRequest
    /\ caller = 1

EncodeOutputVolts ==
    /\ pc = "encode"
    /\ pc' = "decode"
    /\ out' = << [iov  |-> EncodeVolts(arg, OvDen),
                  wire |-> Int16Bytes(EncodeVolts(arg, OvDen))] >>
    /\ UNCHANGED << m_opened, m_connected, m_chipid, m_totrd, m_rdbuf,
                    op, arg, rv, threw, log, pre, connrvs,
                    m_vendor, m_product, m_serial, wire, caller, m_sndbuf >>

DecodeOutputVolts ==
    /\ pc = "decode"
    /\ pc' = "done"
    /\ out' = << [iov  |-> out[1].iov,
                  wire |-> out[1].wire,
                  ov   |-> DecodeVolts(S16(out[1].wire[1] + 256 * out[1].wire[2]))] >>
    /\ UNCHANGED << m_opened, m_connected, m_chipid, m_totrd, m_rdbuf,
                    op, arg, rv, threw, log, pre, connrvs,
                    m_vendor, m_product, m_serial, wire, caller, m_sndbuf >>

NextVolts ==
    \/ EncodeOutputVolts
    \/ DecodeOutputVolts

SpecVolts == InitVolts /\ [][NextVolts]_vars

-----------------------------------------------------------------------------
(* Properties of the session lifecycle *)

\* the public call f has returned
Returned(f) == pc = "idle" /\ op = f /\ ~threw

\* the last transport call of the public call
LastCall == log[Len(log)]

\* the libftdi calls and sleeps of connect() on an opened session, in the
\* order of its documentation
ConnectOrder ==
    << "read_chipid", "set_baudrate", "set_line_property_8N1", "sleep_preFlush",
       "tcioflush", "sleep_postFlush", "usb_reset", "setflowctrl_RTS_CTS_HS",
       "setrts_1" >>

\* C1: between public calls, connected() implies opened().
C1_ConnectedImpliesOpened ==
    pc = "idle" => (m_connected => m_opened)

\* C2: whenever connect() has returned a negative value, connected() is false.
C2_FailedConnectNotConnected ==
    (Returned("connect") /\ rv < 0) => ~m_connected

\* C3: whenever connect() has returned 0, opened() and connected() are true
\* and chipid() is the identifier that the chip-id read of that call returned.
C3_ConnectSuccess ==
    (Returned("connect") /\ rv = 0) =>
        /\ m_opened
        /\ m_connected
        /\ \E i \in DOMAIN log :
             /\ log[i].call = "read_chipid"
             /\ log[i].res >= 0
             /\ m_chipid = log[i].val

\* C3 witness: connect() returned 0 on a session that was opened and not
\* connected, having read identifier 2.
C3_Witness ==
    /\ Returned("connect") /\ rv = 0
    /\ pre.opened /\ ~pre.connected
    /\ m_chipid = 2

\* C4: after close() has returned 0, opened() and connected() are both false.
C4_CloseClosed ==
    (Returned("close") /\ rv = 0) => (~m_opened /\ ~m_connected)

\* C5 as claimed: between public calls, when connected() is false chipid()
\* is 0.
C5_ChipIdClearedWhenNotConnected ==
    (pc = "idle" /\ ~m_connected) => m_chipid = 0

\* C5 as amended: chipid() changes only when a chip-id read of connect()
\* succeeds, and then to the identifier read; no other step, in particular
\* no failing step of connect() and no close(), clears it.
C5_ChipIdKept ==
    [][ m_chipid' # m_chipid => (pc = "read_chipid" /\ m_chipid' \in ChipIds) ]_vars

\* C5 witness: close() succeeded through ftdi_usb_close and the session,
\* no longer connected, still holds a chip identifier.
C5_Witness ==
    /\ Returned("close") /\ rv = 0 /\ Len(log) = 1
    /\ ~m_connected
    /\ m_chipid # 0

\* C6: open() on a session that is already opened makes no transport call,
\* returns 0 and leaves opened() and connected() as they were.
C6_OpenIdempotent ==
    (Returned("open") /\ pre.opened) =>
        /\ log = << >>
        /\ rv = 0
        /\ m_opened = pre.opened
        /\ m_connected = pre.connected

\* C7: open() on a Closed session makes one find-and-open call; when that
\* succeeds open() returns 0 and opened() is true; when it fails with r < 0
\* open() returns r itself and the session is still Closed.
C7_OpenFromClosed ==
    (Returned("open") /\ ~pre.opened /\ ~pre.connected) =>
        /\ Len(log) = 1
        /\ log[1].call = "usb_open_desc_index"
        /\ IF log[1].res >= 0
             THEN rv = 0 /\ m_opened
             ELSE rv = log[1].res /\ ~m_opened /\ ~m_connected

\* C7 witness: open() on a Closed session failed with raw code -5.
C7_Witness ==
    /\ Returned("open") /\ ~pre.opened /\ ~pre.connected
    /\ log[1].res = -5
    /\ rv = -5

\* C8: the transport calls of connect() are a prefix of the fixed order
\* (open first when the session was not opened), only the last call made can
\* have failed, a failed call ends connect(), and connect() returns 0 only
\* after all of them.
C8_ConnectOrder ==
    op = "connect" =>
        LET order == IF pre.opened THEN ConnectOrder
                     ELSE << "usb_open_desc_index" >> \o ConnectOrder
        IN  /\ Len(log) <= Len(order)
            /\ \A i \in DOMAIN log :
                 /\ log[i].call = order[i]
                 /\ (i < Len(log) => log[i].res >= 0)
            /\ (log # << >> /\ LastCall.res < 0) => (pc = "idle" /\ rv < 0)
            /\ (pc = "idle" /\ rv < 0) => (log # << >> /\ LastCall.res < 0)
            /\ (pc = "idle" /\ rv = 0) => Len(log) = Len(order)

\* C8 witness: connect() on a session that was not opened failed at the
\* flush, its sixth call, and made no later call.
C8_Witness ==
    /\ Returned("connect") /\ ~pre.opened
    /\ Len(log) = 6
    /\ LastCall.call = "tcioflush" /\ LastCall.res < 0

\* the code C9 gives for a connect() step failing with raw code r
C9_Code(call, r) ==
    CASE call = "usb_open_desc_index"    -> r
      [] call = "read_chipid"            -> -20 + r
      [] call = "set_baudrate"           -> -30 + r
      [] call = "set_line_property_8N1"  -> -40 + r
      [] call = "sleep_preFlush"         -> -49
      [] call = "tcioflush"              -> -50 + r
      [] call = "sleep_postFlush"        -> -59
      [] call = "usb_reset"              -> -60 + r
      [] call = "setflowctrl_RTS_CTS_HS" -> -70 + r
      [] call = "setrts_1"               -> -80 + r

C10_ConnectOnceThenGiveUp ==
    (pc = "idle" /\ op \in Catalog /\ ValidationCode(op, arg) = 0 /\ ~pre.connected) =>
        /\ Len(connrvs) = 1
        /\ \A i \in DOMAIN log :
             log[i].call \in {"write_data", "read_data"} =>
                 \E j \in 1 .. (i - 1) : log[j].call = "setrts_1" /\ log[j].res >= 0
        /\ connrvs[1] < 0 =>
             /\ rv = connrvs[1]
             /\ \A i \in DOMAIN log : log[i].call \notin {"write_data", "read_data"}

\* C10 witness: hw_req_info on a session that was not connected; connect()
\* failed at the chip-id read and the command returned its -25.
C10_Witness ==
    /\ Returned("hw_req_info") /\ ~pre.connected
    /\ connrvs = << -25 >>
    /\ rv = -25

\* C11: in every catalog command a write that fails with raw code r < 0
\* ends the command at once with -100 + r, or with -666 itself when r is
\* -666; nothing is read (or called at all) after the failed write.
C11_WriteFailure ==
    \A i \in 1 .. Len(log) :
        (log[i].call = "write_data" /\ log[i].res < 0)
          => /\ i = Len(log)
             /\ Returned(op)
             /\ op \in Catalog
             /\ rv = IF log[i].res = -666 THEN -666 ELSE -100 + log[i].res

C11_Witness ==
    /\ Returned(op)
    /\ op \in ReadCmds
    /\ log # << >>
    /\ LastCall.call = "write_data"
    /\ LastCall.res = -5
    /\ rv = -105

\* C12: in every command that reads a response, a read that fails with raw
\* code r < 0, the first of the loop or a later one, ends the command at
\* once with -200 + r, or with -666 itself when r is -666.
C12_ReadFailure ==
    \A i \in 1 .. Len(log) :
        (log[i].call = "read_data" /\ log[i].res < 0)
          => /\ i = Len(log)
             /\ Returned(op)
             /\ op \in ReadCmds
             /\ rv = IF log[i].res = -666 THEN -666 ELSE -200 + log[i].res

C12_Witness ==
    /\ Returned(op)
    /\ Len(log) >= 3
    /\ log[Len(log) - 1].call = "read_data"
    /\ log[Len(log) - 1].res > 0
    /\ LastCall.call = "read_data"
    /\ LastCall.res = -3
    /\ rv = -203

\* C13 as stated: whenever the last transport call of an operation failed
\* with raw code -666, in a command or in any step of connect(), the
\* operation returns exactly -666.
C13_SentinelVerbatim ==
    (pc = "idle" /\ ~threw /\ log # << >> /\ LastCall.res = Unavailable)
      => rv = Unavailable

\* C13 amended: a raw -666 is returned as it is by the write and the read of
\* a command and by open() and close(), which return every raw code as it
\* is; a step of connect() adds its offset to -666 as to any other code
\* (-686 for the chip-id read, ..., -746 for RTS).
C13_SentinelCodes ==
    (pc = "idle" /\ ~threw /\ log # << >> /\ LastCall.res = Unavailable)
      => rv = CASE LastCall.call = "write_data"             -> -666
                [] LastCall.call = "read_data"              -> -666
                [] LastCall.call = "usb_open_desc_index"    -> -666
                [] LastCall.call = "usb_close"              -> -666
                [] LastCall.call = "read_chipid"            -> -686
                [] LastCall.call = "set_baudrate"           -> -696
                [] LastCall.call = "set_line_property_8N1"  -> -706
                [] LastCall.call = "tcioflush"              -> -716
                [] LastCall.call = "usb_reset"              -> -726
                [] LastCall.call = "setflowctrl_RTS_CTS_HS" -> -736
                [] LastCall.call = "setrts_1"               -> -746

C13_Witness ==
    /\ Returned(op)
    /\ op \in Catalog
    /\ log # << >>
    /\ LastCall.call = "write_data"
    /\ LastCall.res = Unavailable
    /\ rv = Unavailable

\* C14: when a command expecting N > 0 bytes has received exactly N - 1 of
\* them and its next read delivers no byte, the data having ended, the
\* command returns -300.
C14_ShortResponse ==
    [][ ( /\ pc = "read_data"
          /\ ResponseSize(op) > 0
          /\ m_totrd = ResponseSize(op) - 1
          /\ log' = Append(log, ReadEntry(0, RdBufSize - m_totrd, 0)) )
        => (pc' = "idle" /\ rv' = -300) ]_vars

\* C15: when every read of a command expecting N > 0 bytes succeeds and the
\* count accumulated when the loop ends is not N (more than N bytes came),
\* the command returns -300 and its output argument is left as it was.
C15_LengthMismatch ==
    ( /\ Returned(op)
      /\ op \in ReadCmds
      /\ ResponseSize(op) > 0
      /\ log # << >>
      /\ LastCall.call = "read_data"
      /\ LastCall.res >= 0
      /\ m_totrd # ResponseSize(op) )
      => /\ rv = -300
         /\ out = << >>
         /\ m_totrd > ResponseSize(op)

C15_Witness ==
    /\ Returned("pz_req_tpz_dispsettings")
    /\ log # << >>
    /\ LastCall.call = "read_data"
    /\ LastCall.res > 0
    /\ m_totrd = 9
    /\ rv = -300
    /\ out = << >>

\* C16: pz_set_outputvolts called with |ov| > 1.0 returns -980 without any
\* transport call (no connect, no flush, no write) and leaves the session
\* as it was, whether the session was connected or not.
C16_VoltsRejected ==
    (Returned("pz_set_outputvolts") /\ Abs(arg) > OvDen)
      => /\ rv = -980
         /\ log = << >>
         /\ connrvs = << >>
         /\ m_opened = pre.opened
         /\ m_connected = pre.connected

C16_Witness ==
    /\ Returned("pz_set_outputvolts")
    /\ arg = OvDen + 1
    /\ pre.connected
    /\ m_connected
    /\ rv = -980
    /\ log = << >>

\* C17: mod_set_chanenablestate called with EnableState::invalid and
\* pz_set_tpz_iosettings called with VoltLimit::INVALID return -1000 without
\* a connect attempt and without a transport write.
C17_EnumRejected ==
    ( /\ Returned(op)
      /\ op \in {"mod_set_chanenablestate", "pz_set_tpz_iosettings"}
      /\ arg = 0 )
      => /\ rv = -1000
         /\ log = << >>
         /\ connrvs = << >>
         /\ m_opened = pre.opened
         /\ m_connected = pre.connected

C17_Witness ==
    /\ Returned("pz_set_tpz_iosettings")
    /\ arg = 0
    /\ ~pre.connected
    /\ ~m_connected
    /\ rv = -1000
    /\ connrvs = << >>

\* the public call f has returned after reading a response of the length
\* it expects
Decoded(f) ==
    /\ Returned(f)
    /\ log # << >>
    /\ LastCall.call = "read_data"
    /\ LastCall.res >= 0
    /\ m_totrd = ResponseSize(f)

\* C18: mod_req_chanenablestate decodes byte 3 of the response: 0x01 gives
\* enabled and the return value 0, 0x02 gives disabled and 0, any other
\* value sets the output to invalid and returns -1000.
C18_EnableStateDecode ==
    Decoded("mod_req_chanenablestate")
      => CASE m_rdbuf[3] = 1 -> rv = 0 /\ out = << [ces |-> 1] >>
           [] m_rdbuf[3] = 2 -> rv = 0 /\ out = << [ces |-> 2] >>
           [] OTHER          -> rv = -1000 /\ out = << [ces |-> 0] >>

C18_Witness ==
    /\ Decoded("mod_req_chanenablestate")
    /\ m_rdbuf[3] = 3
    /\ rv = -1000
    /\ out = << [ces |-> 0] >>

\* the voltage-limit code of the response just read: the 16 bits at offset 8
C19_LimitCode == LE16(Buf(Received(log, Len(log))), 8)

\* C19 as stated: pz_req_tpz_iosettings returns -1000 when the voltage-limit
\* code at offset 8 of its 16-byte response is none of 1, 2, 3.
C19_InvalidLimitRejected ==
    (Decoded("pz_req_tpz_iosettings") /\ C19_LimitCode \notin {1, 2, 3})
      => rv = -1000

\* C19 amended: pz_req_tpz_iosettings returns 0 for every 16-byte response;
\* a voltage-limit code that is none of 1, 2, 3 sets the output's
\* VoltageLimit to INVALID, and HubAnalogInput is still decoded.
C19_InvalidLimitAccepted ==
    (Decoded("pz_req_tpz_iosettings") /\ C19_LimitCode \notin {1, 2, 3})
      => /\ rv = 0
         /\ out = << [VoltageLimit   |-> 0,
                      HubAnalogInput |-> LE16(Buf(Received(log, Len(log))), 10)] >>

C19_Witness ==
    /\ Decoded("pz_req_tpz_iosettings")
    /\ C19_LimitCode = 257
    /\ rv = 0
    /\ out # << >>
    /\ out[1].VoltageLimit = 0

\* C20: for every ov in [-1.0, 1.0] the integer pz_set_outputvolts encodes
\* fits a signed 16-bit integer, and the ov that pz_req_outputvolts decodes
\* from it differs from ov by at most one step: 1/32767 for ov > 0, 1/32768
\* for ov <= 0.  With ov = arg / OvDen, the decoded value num / den and the
\* step 1 / S, the distance is |arg * S - num * OvDen| / (OvDen * S) when den
\* is S or num is 0.
C20_VoltsRoundTrip ==
    pc = "done"
      => LET S == IF arg > 0 THEN 32767 ELSE 32768
             d == out[1].ov
         IN  /\ out[1].iov \in -32768 .. 32767
             /\ d.num = 0 \/ d.den = S
             /\ Abs(arg * S - d.num * OvDen) <= OvDen

C20_Witness ==
    /\ pc = "done"
    /\ arg = -1
    /\ out[1].iov = -32
    /\ out[1].wire = << 224, 255 >>
    /\ out[1].ov = [num |-> -32, den |-> 32768]

\* C21: vendor, product and serial are immutable once the session is
\* connected: no step taken while m_connected is true changes them.
C21_IdentImmutable ==
    [][ m_connected => UNCHANGED << m_vendor, m_product, m_serial >> ]_vars

C23_Fixture ==
    Response(90, Join(Join(At(6, << 104, 92, 190, 1 >>),
                           At(10, << 75, 80, 90, 49, 48, 49, 32, 32 >>)),
                      At(20, << 1, 2, 3 >>)))

\* C23: hw_req_info decodes that response to modelNumber "KPZ101",
\* serialNumber 29252712 and the firmware version 3.2.1.
C23_HwInfoFixture ==
    (pc = "done" /\ op = "hw_req_info" /\ arg = C23_Fixture)
      => /\ out[1].modelNumber = << 75, 80, 90, 49, 48, 49 >>
         /\ out[1].serialNumber.lo + 65536 * out[1].serialNumber.hi = 29252712
         /\ FwVersion(out[1]) = << 3, 2, 1 >>

\* the 16-byte response of C24: status bits 0x0431 at offset 12
C24_Fixture == Response(16, At(12, << 49, 4, 0, 0 >>))

\* C24 as stated: the status bits 0x0431 decode to connected, not zeroed,
\* not zeroing, strain gauge connected, position-control mode.
C24_StatusFixture ==
    (pc = "done" /\ op = "pz_req_pzstatusupdate" /\ arg = C24_Fixture)
      => /\ out[1].connected = TRUE
         /\ out[1].zeroed = FALSE
         /\ out[1].zeroing = FALSE
         /\ out[1].sgConnected = TRUE
         /\ out[1].pcMode = TRUE

\* C24 amended: 0x0431 has the bits 0, 4, 5 and 10 set and bit 8 clear, so
\* it decodes to connected, zeroed, zeroing, no strain gauge connected,
\* position-control mode.
C24_StatusFixtureBits ==
    (pc = "done" /\ op = "pz_req_pzstatusupdate" /\ arg = C24_Fixture)
      => /\ out[1].connected = TRUE
         /\ out[1].zeroed = TRUE
         /\ out[1].zeroing = TRUE
         /\ out[1].sgConnected = FALSE
         /\ out[1].pcMode = TRUE

C24_Witness ==
    /\ pc = "done"
    /\ op = "pz_req_pzstatusupdate"
    /\ arg = C24_Fixture
    /\ out # << >>
    /\ out[1].zeroed

\* C25: for every status word at offset 12 of a 16-byte response,
\* pz_req_pzstatusupdate sets connected to bit 0, zeroed to bit 4, zeroing
\* to bit 5, sgConnected to bit 8 and pcMode to bit 10 (bits 0, 4, 5 of the
\* byte at offset 12, bits 0 and 2 of the byte at offset 13), and voltage
\* and position to the signed 16-bit little-endian values at offsets 8 and
\* 10.
C25_StatusDecode ==
    (pc = "done" /\ op = "pz_req_pzstatusupdate")
      => LET b == Buf(arg)
             Signed(l, h) == IF h >= 128 THEN l + 256 * h - 65536 ELSE l + 256 * h
         IN  /\ out[1].connected   = (b[12] % 2 = 1)
             /\ out[1].zeroed      = ((b[12] \div 16) % 2 = 1)
             /\ out[1].zeroing     = ((b[12] \div 32) % 2 = 1)
             /\ out[1].sgConnected = (b[13] % 2 = 1)
             /\ out[1].pcMode      = ((b[13] \div 4) % 2 = 1)
             /\ out[1].voltage     = Signed(b[8], b[9])
             /\ out[1].position    = Signed(b[10], b[11])

C25_Witness ==
    /\ pc = "done"
    /\ op = "pz_req_pzstatusupdate"
    /\ arg = Response(16, Join(At(8, << 0, 128 >>), At(10, << 255, 127 >>)))
    /\ out[1].voltage = -32768
    /\ out[1].position = 32767
    /\ ~out[1].connected

\* C26: every catalog command writes a request whose first two bytes are its
\* opcode, little endian (identify 0x0223, stop-update 0x0012, hw-info 0x0005,
\* get / set channel-enable 0x0211 / 0x0210, get / set output volts 0x0644 /
\* 0x0643, status 0x0660, get / set display 0x07D2 / 0x07D1, get / set io
\* 0x07D5 / 0x07D4, get / set UI 0x07F1 / 0x07F0), whose source byte is 0x01,
\* whose destination byte has 0x50 in its low 7 bits and has its high bit set
\* exactly when the request is longer than 6 bytes.
C26_Opcode ==
    [ c \in Catalog |->
        CASE c = "mod_identify"            -> 547
          [] c = "hw_stop_updatemsgs"      -> 18
          [] c = "hw_req_info"             -> 5
          [] c = "mod_req_chanenablestate" -> 529
          [] c = "mod_set_chanenablestate" -> 528
          [] c = "pz_req_outputvolts"      -> 1604
          [] c = "pz_set_outputvolts"      -> 1603
          [] c = "pz_req_pzstatusupdate"   -> 1632
          [] c = "pz_req_tpz_dispsettings" -> 2002
          [] c = "pz_set_tpz_dispsettings" -> 2001
          [] c = "pz_req_tpz_iosettings"   -> 2005
          [] c = "pz_set_tpz_iosettings"   -> 2004
          [] c = "kpz_req_kcubemmiparams"  -> 2033
          [] c = "kpz_set_kcubemmiparams"  -> 2032 ]

C26_RequestFraming ==
    (pc = "done" /\ op \in Catalog /\ rv = 0) =>
        /\ Len(out) = 1
        /\ Len(out[1]) >= 6
        /\ out[1][1] + 256 * out[1][2] = C26_Opcode[op]
        /\ out[1][6] = 1
        /\ out[1][5] % 128 = 80
        /\ (out[1][5] >= 128) <=> (Len(out[1]) > 6)

\* a request longer than 6 bytes and one of 6 bytes have been built
C26_Witness ==
    /\ pc = "done"
    /\ op = "kpz_set_kcubemmiparams"
    /\ rv = 0
    /\ Len(out[1]) = 40
    /\ out[1][5] = 208
    /\ out[1][1] = 240


\* C30: mod_set_chanenablestate with a valid state on a connected session
\* makes one write of 6 bytes, then sleeps for the post-channel-enable time,
\* then makes exactly one transport read; it returns 0 whatever number of
\* bytes (0 included) that read delivers, returns -700 without reading when
\* the sleep fails, and never assigns anything from the bytes it drained.
C30_ChanEnableDrain ==
    (Returned("mod_set_chanenablestate") /\ pre.connected /\ arg # 0) =>
        /\ Len(log) >= 1
        /\ log[1].call = "write_data"
        /\ log[1].val = 6
        /\ log[1].res >= 0 =>
             /\ Len(log) >= 2
             /\ log[2].call = "sleep_postChanEnable"
             /\ log[2].res < 0 => (Len(log) = 2 /\ rv = -700)
             /\ log[2].res = 0 =>
                  /\ Len(log) = 3
                  /\ log[3].call = "read_data"
                  /\ log[3].res >= 0 => rv = 0
        /\ out = << >>

\* the drain has delivered a byte and the command has returned 0
C30_Witness ==
    /\ Returned("mod_set_chanenablestate")
    /\ pre.connected
    /\ arg # 0
    /\ Len(log) = 3
    /\ log[3].call = "read_data"
    /\ log[3].res = 1
    /\ m_totrd = 1
    /\ rv = 0

\* the bytes a command that has returned 0 decoded: m_rdbuf[0 .. N-1]
StreamDecoded == { m_rdbuf[i] : i \in 1 .. ResponseSize(op) }

\* a response-reading command has returned after decoding its N > 0 bytes
StreamReturned ==
    /\ pc = "idle"
    /\ op \in ReadCmds
    /\ ResponseSize(op) > 0
    /\ m_totrd = ResponseSize(op)
    /\ Len(m_rdbuf) = m_totrd

\* C27 as stated, its second half: when the calls of the threads are
\* serialized, no call returns 0 having decoded bytes that belong to a call
\* of the other thread.
C27_SerializedCallsApart ==
    (StreamReturned /\ rv = 0) => \A b \in StreamDecoded : b.by = caller

\* C28 as stated: every command that has been called eventually returns, the
\* transport calls all returning.
C28_CommandReturns == (pc # "idle") ~> (pc = "idle")

\* C29 as stated: whenever a response-reading command returns 0, the N bytes
\* it decoded were all sent in reply to its own request.
C29_DecodesOwnResponse ==
    (StreamReturned /\ rv = 0) => \A b \in StreamDecoded : b.age = 0

\* the ftdi_write_data calls the public call has made
WritesDone == Cardinality({ i \in DOMAIN log : log[i].call = "write_data" })

\* C31: a catalog command calls connect() at most once and writes to the
\* transport at most once, and once an ftdi_write_data or ftdi_read_data has
\* failed it makes no further transport call (no second write or read, no
\* reconnect): the failed call is its last one and the command has returned.
C31_NoRetry ==
    op \in Catalog =>
        /\ Len(connrvs) <= 1
        /\ WritesDone <= 1
        /\ \A i \in DOMAIN log :
             (log[i].call \in {"write_data", "read_data"} /\ log[i].res < 0) =>
                 (i = Len(log) /\ pc = "idle")

\* a command that had to connect has written its request and its read failed
C31_Witness ==
    /\ pc = "idle"
    /\ op \in Catalog
    /\ ~pre.connected
    /\ Len(connrvs) = 1
    /\ WritesDone = 1
    /\ LastCall.call = "read_data"
    /\ LastCall.res < 0
    /\ rv = ReadCode(LastCall.res)

\* C32 as stated: the 40-byte request of kpz_set_kcubemmiparams has 0 at
\* every offset from 32 to 39 and the 16-byte request of
\* pz_set_tpz_iosettings has 0 at offsets 12 to 15, whatever m_sndbuf held
\* before.
C32_ZeroPadding ==
    (pc = "done" /\ rv = 0) =>
        /\ op = "kpz_set_kcubemmiparams" => \A o \in 32 .. 39 : out[1][o + 1] = 0
        /\ op = "pz_set_tpz_iosettings" => \A o \in 12 .. 15 : out[1][o + 1] = 0

\* C33 as stated: in every set command whose request is longer than 6 bytes
\* the bytes at offsets 6 and 7 are 0x01, 0x00.
C33_ChannelPairInEverySet ==
    (pc = "done" /\ rv = 0 /\ op \in WriteCommandCmds) =>
        (out[1][7] = 1 /\ out[1][8] = 0)

\* C33, amended: the requests of pz_set_outputvolts, pz_set_tpz_iosettings and
\* kpz_set_kcubemmiparams have 0x01, 0x00 at offsets 6 and 7 and their first
\* field at offset 8; the request of pz_set_tpz_dispsettings has no such pair,
\* its payload is the intensity at offsets 6 and 7.
C33_ChannelPair ==
    (pc = "done" /\ rv = 0) =>
        /\ op \in {"pz_set_outputvolts", "pz_set_tpz_iosettings", "kpz_set_kcubemmiparams"} =>
             (out[1][7] = 1 /\ out[1][8] = 0)
        /\ op = "pz_set_outputvolts" =>
             S16(out[1][9] + 256 * out[1][10]) = EncodeVolts(arg.ov, OvDen)
        /\ op = "pz_set_tpz_iosettings" =>
             out[1][9] + 256 * out[1][10] = arg.VoltageLimit
        /\ op = "kpz_set_kcubemmiparams" =>
             out[1][9] + 256 * out[1][10] = arg.JSMode
        /\ op = "pz_set_tpz_dispsettings" =>
             out[1][7] + 256 * out[1][8] = arg.dispint

\* a display request whose bytes 6 and 7 are not 0x01, 0x00
C33_Witness ==
    /\ pc = "done"
    /\ rv = 0
    /\ op = "pz_set_tpz_dispsettings"
    /\ arg.dispint = 256
    /\ out[1][7] = 0
    /\ out[1][8] = 1

\* C34: the number of bytes handed to ftdi_write_data is 6 for a request
\* without payload, and for a request with payload 6 plus the length written
\* little endian in header bytes 2-3: 10 for output volts, 8 for the display,
\* 16 for the IO settings, 40 for the UI parameters.
C34_WriteSize ==
    (pc = "done" /\ rv = 0) =>
        /\ Len(out[1]) = IF out[1][5] >= 128
                           THEN 6 + out[1][3] + 256 * out[1][4]
                           ELSE 6
        /\ op = "pz_set_outputvolts" => Len(out[1]) = 10
        /\ op = "pz_set_tpz_dispsettings" => Len(out[1]) = 8
        /\ op = "pz_set_tpz_iosettings" => Len(out[1]) = 16
        /\ op = "kpz_set_kcubemmiparams" => Len(out[1]) = 40
        /\ op \in WriteRequestCmds => Len(out[1]) = 6

\* a request with a payload of 10 bytes has been built
C34_Witness ==
    /\ pc = "done"
    /\ rv = 0
    /\ op = "pz_set_tpz_iosettings"
    /\ out[1][3] = 10
    /\ out[1][4] = 0
    /\ Len(out[1]) = 16

\* C35: what kpz_set_kcubemmiparams, pz_set_tpz_iosettings (with a valid
\* voltage limit) and pz_set_tpz_dispsettings wrote, returned at the same
\* offsets in a response of the get command, is decoded by the get command
\* as the record that was set.
C35_SetGetInverse ==
    (pc = "echo" /\ (op = "pz_set_tpz_iosettings" => arg.VoltageLimit \in {1, 2, 3})) =>
        /\ Len(out) = 2
        /\ out[2] = arg

\* UI parameters with negative and large fields have gone through set and get
C35_Witness ==
    /\ pc = "echo"
    /\ op = "kpz_set_kcubemmiparams"
    /\ arg.JSVoltStep = -1
    /\ arg.DirSense = -1
    /\ arg.PresetVolt1 = 70000
    /\ out[2].JSVoltStep = -1
    /\ out[2].DirSense = -1
    /\ out[2].PresetVolt1 = 70000

\* C39 as stated: mod_set_chanenablestate writes a request only when the
\* enable state is 1 or 2, pz_set_tpz_iosettings only when the voltage-limit
\* code is 1, 2 or 3.
C39_KnownEnumeratorsOnly ==
    (pc = "done" /\ out # << >>) =>
        /\ op = "mod_set_chanenablestate" => arg.ces \in {1, 2}
        /\ op = "pz_set_tpz_iosettings" => arg.VoltageLimit \in {1, 2, 3}

\* what a caller is to tell apart: the step that failed, a sentinel reported
\* by a command write or read being a class of its own
C37_Site(f) ==
    IF f.site \in {"write_data", "read_data"} /\ f.raw = Unavailable
      THEN "sentinel"
      ELSE f.site

C36_ZeroMeansAllSucceeded ==
    (pc = "idle" /\ op \in Catalog /\ ~threw /\ rv = 0) =>
        \A i \in DOMAIN log :
            /\ log[i].call = "tcioflush" => log[i].res = 0
            /\ log[i].call = "write_data" => log[i].res = log[i].val

\* C38: a catalog command entered on a connected session leaves m_opened,
\* m_connected and m_chipid as they were, at every step and whatever it
\* returns, the sentinel -666 of a failed write or read included; so the next
\* command finds the session connected and does not call connect().
C38_SessionFrame ==
    [][ (op' \in Catalog /\ pre'.connected) =>
            UNCHANGED << m_opened, m_connected, m_chipid >> ]_vars

\* a command entered on a connected session has returned the sentinel from
\* its read, and the session is still connected
C38_Witness ==
    /\ pc = "idle"
    /\ op \in Catalog
    /\ pre.connected
    /\ log # << >>
    /\ LastCall.call = "read_data"
    /\ LastCall.res = Unavailable
    /\ rv = Unavailable
    /\ m_opened
    /\ m_connected

\* C40: m_rdbuf is never overrun: every ftdi_read_data is given the room
\* left behind the bytes received since the response read began (m_totrd was
\* reset to 0 before the first one), a room that is always positive, and
\* 0 <= m_totrd <= 256 in every state, the transport never delivering more
\* than the room it was given.
C40_NoOverrun ==
    /\ 0 <= m_totrd
    /\ m_totrd <= RdBufSize
    /\ \A i \in DOMAIN log :
         log[i].call = "read_data" =>
             /\ log[i].val > 0
             /\ log[i].val = RdBufSize - Len(Received(log, i - 1))

\* a second read has been given the tail of the buffer and has filled it
C40_Witness ==
    /\ pc = "idle"
    /\ op = "pz_req_outputvolts"
    /\ ReadsDone = 2
    /\ LastCall.call = "read_data"
    /\ LastCall.val = RdBufSize - 9
    /\ LastCall.res = LastCall.val
    /\ m_totrd = RdBufSize
    /\ rv = -300

=============================================================================
